---- MODULE Spec2Model ----
(***************************************************************************)
(* Model of the airtablewatcher package: the Watcher's watch registry,     *)
(* the blocking poll loop Watcher.Start, the per-invocation goroutine      *)
(* Watcher.watchForCancel, and the Row accessors, over a small remote      *)
(* table store.                                                            *)
(***************************************************************************)
EXTENDS Integers, Sequences, FiniteSets, TLC

(* ------------------------------------------------------------------ *)
(* Bounds of the model.                                                *)
(* ------------------------------------------------------------------ *)
MaxCycles == 2
MaxWrites == 1
MaxConfigRows == 2

(* ------------------------------------------------------------------ *)
(* The remote store: tables, the record ids of each table in list      *)
(* order, and the JSON-like field values.                              *)
(* ------------------------------------------------------------------ *)
TableRows == [Tasks |-> <<"rec1", "rec2">>, Jobs |-> <<"rec3">>]

Tables == DOMAIN TableRows

RowIDs == UNION {{TableRows[tn][k] : k \in 1..Len(TableRows[tn])} : tn \in Tables}

FieldNames == {"State"}

Str(s) == [t |-> "string", s |-> s, b |-> FALSE, n |-> 0]

Bool(b) == [t |-> "bool", s |-> "", b |-> b, n |-> 0]

Float(n) == [t |-> "float64", s |-> "", b |-> FALSE, n |-> n]

Nil == [t |-> "nil", s |-> "", b |-> FALSE, n |-> 0]

\* a JSON array, such as the attachments of a row
Array == [t |-> "array", s |-> "", b |-> FALSE, n |-> 0]

\* values a caller of SetRow writes into the watched field
WriteValues == {Str("ToDo"), Str("Cancel"), Str("Done")}

\* the watched field of each record when the watcher is started
InitStore == [rec1 |-> Str("ToDo"), rec2 |-> Bool(TRUE), rec3 |-> Str("ToDo")]

CancelReasons == {"context canceled", "context deadline exceeded"}

FetchError == "fetch error"

NotFound == "config key not found"

\* what the Fields of a row of the config table hold: nothing that is a
\* key/value mapping, or a mapping with or without a Key and a Value
ConfigKeyValues == {Str("TestKey"), Str(""), Bool(TRUE)}

ConfigValueValues == {Str("TestValue"), Bool(FALSE), Float(1), Array}

NotAMap == [isMap |-> FALSE, kv |-> <<>>]

MapOf(D, k, v) == [isMap |-> TRUE, kv |-> [f \in D |-> IF f = "Key" THEN k ELSE v]]

ConfigFields ==
    {NotAMap, MapOf({}, Nil, Nil)}
    \cup {MapOf({"Key"}, k, Nil) : k \in ConfigKeyValues}
    \cup {MapOf({"Value"}, Nil, v) : v \in ConfigValueValues}
    \cup {MapOf({"Key", "Value"}, k, v) : k \in ConfigKeyValues, v \in ConfigValueValues}

\* the config tables: up to MaxConfigRows rows, in list order
ConfigTables ==
    UNION {{[k \in 1..n |-> [ID |-> "cfg" \o ToString(k), Fields |-> fs[k]]] :
               fs \in [1..n -> ConfigFields]} : n \in 0..MaxConfigRows}

\* the keys GetConfig is called with and the field names the accessors are
\* called with
KeyArgs == {"TestKey", "", "true", "Missing"}

FieldArgs == {"Key", "Value", "State"}

(* ------------------------------------------------------------------ *)
(* Row accessors.                                                      *)
(* ------------------------------------------------------------------ *)
\* fmt.Sprintf("%f", v) of a whole-valued float64
FormatFloat(n) == ToString(n) \o ".000000"

GetField(r, fieldName) ==
    IF r.Fields.isMap /\ fieldName \in DOMAIN r.Fields.kv
    THEN r.Fields.kv[fieldName]
    ELSE Nil

\* GetFieldString with every value that is no string, boolean or number
\* formatted with fmt.Sprintf("%v", value)
GetFieldStringSprint(r, fieldName) ==
    LET value == GetField(r, fieldName) IN
    IF value.t = "string" THEN value.s
    ELSE IF value.t = "bool" THEN (IF value.b THEN "true" ELSE "false")
    ELSE IF value.t = "float64" THEN FormatFloat(value.n)
    ELSE IF value.t = "nil" THEN "<nil>"
    ELSE "[]"

GetFieldString(r, fieldName) ==
    LET value == GetField(r, fieldName) IN
    IF value.t = "string" THEN value.s
    ELSE IF value.t = "bool" THEN (IF value.b THEN "true" ELSE "false")
    ELSE IF value.t = "float64" THEN FormatFloat(value.n)
    ELSE ""

MkRow(id, v) == [ID |-> id, Fields |-> [isMap |-> TRUE, kv |-> [State |-> v]]]

(* ------------------------------------------------------------------ *)
(* State.                                                              *)
(* ------------------------------------------------------------------ *)
VARIABLES
    watchers,       \* Watcher.watchers: the registry, in registration order
    store,          \* the remote base: record id -> value of its State field
    writes,         \* number of SetRow calls made so far
    ctxErr,         \* Err() of the context passed to Start ("" = not done)
    tctx,           \* Watcher.ctx: the context the invocations derive from
    pc,             \* position of Start
    result,         \* value returned by Start ("" = has not returned)
    err,            \* err of the last t.GetRows call of Start
    cycle,          \* number of the current pass of Start's for loop
    tablesLeft,     \* tables of this pass not yet ranged over
    tableName,      \* loop variable tableName
    rows,           \* rows returned by GetRows for tableName
    rowIdx,         \* index in rows of loop variable row
    watchIdx,       \* index in watchers of loop variable watcher
    invocations,    \* the dispatches of the current pass, in order
    sups,           \* the live watchForCancel goroutines
    supErr,         \* err of the last t.GetRow call of a watchForCancel goroutine
    cfgRows,        \* the rows of the table Watcher.ConfigTableName, in list order
    ret             \* the last call of GetConfig or GetFieldString and what it returned

vars == <<watchers, store, writes, ctxErr, tctx, pc, result, err, cycle, tablesLeft,
          tableName, rows, rowIdx, watchIdx, invocations, sups, supErr, cfgRows, ret>>

\* the variables of the calls of GetConfig and of the Row accessors
accVars == <<cfgRows, ret>>

\* the variables of Start and of its goroutines
schedVars == <<watchers, store, writes, ctxErr, tctx, pc, result, err, cycle, tablesLeft,
               tableName, rows, rowIdx, watchIdx, invocations, sups, supErr>>

\* the registry does not change once Start runs
fixedVars == <<watchers>>

envVars == <<store, writes, ctxErr>>

\* Start's own variables apart from its position in the nested loops
passVars == <<tctx, result, err, cycle, tablesLeft, tableName, rows>>

loopVars == <<pc, rowIdx, watchIdx>>

supVars == <<sups, supErr>>

Watch(tn, fn, tv, cvs) ==
    [tableName |-> tn, fieldName |-> fn, triggerValue |-> tv, cancelValues |-> cvs]

SeqToSet(s) == {s[k] : k \in 1..Len(s)}

\* the registrations a program makes: RegisterFunction's arguments
WatchChoices ==
    {Watch("Tasks", "State", "ToDo", <<"Cancel">>),
     Watch("Tasks", "State", "true", <<>>),
     Watch("Jobs", "State", "ToDo", <<"Cancel", "ToDo">>)}

\* the registries programs build with them before they call Start: two
\* watches of one table with different trigger values, the same watch twice,
\* watches of two tables, and all three
Registries ==
    {<<Watch("Tasks", "State", "ToDo", <<"Cancel">>), Watch("Tasks", "State", "true", <<>>)>>,
     <<Watch("Tasks", "State", "ToDo", <<"Cancel">>), Watch("Tasks", "State", "ToDo", <<"Cancel">>)>>,
     <<Watch("Jobs", "State", "ToDo", <<"Cancel", "ToDo">>), Watch("Tasks", "State", "ToDo", <<"Cancel">>)>>,
     <<Watch("Tasks", "State", "true", <<>>), Watch("Jobs", "State", "ToDo", <<"Cancel", "ToDo">>),
       Watch("Tasks", "State", "ToDo", <<"Cancel">>)>>}

IsPrefix(p, q) == Len(p) <= Len(q) /\ \A k \in 1..Len(p) : p[k] = q[k]

\* Done() of a context.Context: the one passed to Start, or Background
ParentDone(c) == c = "ctx" /\ ctxErr # ""

\* the context of invocation i is done: its own cancel function was called
\* or its parent is done
CtxDone(i) == invocations[i].cancel # "none" \/ ParentDone(invocations[i].parent)

\* invocations whose action function has been called and has not returned
Running == {i \in 1..Len(invocations) : ~invocations[i].returned}

\* no accessor call made yet
NoCall == [op |-> "none", row |-> 0, key |-> "", value |-> "", err |-> ""]

SchedInit ==
    /\ watchers = <<>>
    /\ store = InitStore
    /\ writes = 0
    /\ ctxErr = ""
    /\ tctx = "nil"
    /\ pc = "idle"
    /\ result = ""
    /\ err = ""
    /\ cycle = 0
    /\ tablesLeft = {}
    /\ tableName = ""
    /\ rows = <<>>
    /\ rowIdx = 0
    /\ watchIdx = 0
    /\ invocations = <<>>
    /\ sups = {}
    /\ supErr = ""

Init ==
    /\ SchedInit
    /\ cfgRows = <<>>
    /\ ret = NoCall

(* ------------------------------------------------------------------ *)
(* The registry and the store operations.                              *)
(* ------------------------------------------------------------------ *)
RegisterFunction(tn, fn, tv, cvs) ==
    /\ pc = "idle"
    /\ \E r \in Registries : IsPrefix(Append(watchers, Watch(tn, fn, tv, cvs)), r)
    /\ watchers' = Append(watchers, Watch(tn, fn, tv, cvs))
    /\ UNCHANGED <<accVars, envVars, passVars, loopVars, invocations, supVars>>

\* ListRecords(tableName): the table's rows as they are now, in list order
ListRecords(tn) ==
    [k \in 1..Len(TableRows[tn]) |-> MkRow(TableRows[tn][k], store[TableRows[tn][k]])]

\* RetrieveRecord(tableName, recordID) finds a record only in its own table
HasRecord(tn, id) == id \in SeqToSet(TableRows[tn])

\* a SetRow call by an action function or by a user of the base, while Start runs
SetRow(id, v) ==
    /\ pc \notin {"idle", "returned"}
    /\ writes < MaxWrites
    /\ store[id] # v
    /\ writes' = writes + 1
    /\ store' = [store EXCEPT ![id] = v]
    /\ UNCHANGED <<fixedVars, accVars, ctxErr, passVars, loopVars, invocations, supVars>>

\* the caller of Start cancels the context it passed (or its deadline passes)
CancelCtx(reason) ==
    /\ pc \notin {"idle", "returned"}
    /\ ctxErr = ""
    /\ ctxErr' = reason
    /\ UNCHANGED <<fixedVars, accVars, store, writes, passVars, loopVars, invocations, supVars>>

(* ------------------------------------------------------------------ *)
(* Watcher.Start.                                                      *)
(* ------------------------------------------------------------------ *)
\* tables := the distinct tableName of the registered watches
WatchedTables == {watchers[k].tableName : k \in 1..Len(watchers)}

\* where Start goes once a table's rows are exhausted
NextAfterTables(left) == IF left = {} THEN "check" ELSE "fetch"

\* a range loop has ended: a goroutine holding a pointer to its variable
\* keeps seeing the last value assigned to it
EndLoopW(S) ==
    {IF s.wLinked THEN [s EXCEPT !.w = Len(watchers), !.wLinked = FALSE] ELSE s : s \in S}

EndLoopRow(S) ==
    {IF s.rowLinked THEN [s EXCEPT !.row = rows[Len(rows)].ID, !.rowLinked = FALSE] ELSE s : s \in S}

\* Advance with the loops nested the other way round: every row for one
\* watch, then the next watch
AdvanceWatchMajor(S) ==
    IF rowIdx < Len(rows)
    THEN /\ rowIdx' = rowIdx + 1
         /\ watchIdx' = watchIdx
         /\ pc' = "eval"
         /\ sups' = S
    ELSE IF watchIdx < Len(watchers)
    THEN /\ watchIdx' = watchIdx + 1
         /\ rowIdx' = 1
         /\ pc' = "eval"
         /\ sups' = EndLoopRow(S)
    ELSE /\ pc' = NextAfterTables(tablesLeft)
         /\ rowIdx' = 0
         /\ watchIdx' = 0
         /\ sups' = EndLoopRow(EndLoopW(S))

\* Advance with a break out of the loop over t.watchers
AdvanceBreak(S) ==
    IF rowIdx < Len(rows)
    THEN /\ rowIdx' = rowIdx + 1
         /\ watchIdx' = 1
         /\ pc' = "eval"
         /\ sups' = EndLoopW(S)
    ELSE /\ pc' = NextAfterTables(tablesLeft)
         /\ rowIdx' = 0
         /\ watchIdx' = 0
         /\ sups' = EndLoopRow(EndLoopW(S))

\* next iteration of the nested range loops over rows and t.watchers
Advance(S) ==
    IF watchIdx < Len(watchers)
    THEN /\ watchIdx' = watchIdx + 1
         /\ rowIdx' = rowIdx
         /\ pc' = "eval"
         /\ sups' = S
    ELSE IF rowIdx < Len(rows)
    THEN /\ rowIdx' = rowIdx + 1
         /\ watchIdx' = 1
         /\ pc' = "eval"
         /\ sups' = EndLoopW(S)
    ELSE /\ pc' = NextAfterTables(tablesLeft)
         /\ rowIdx' = 0
         /\ watchIdx' = 0
         /\ sups' = EndLoopRow(EndLoopW(S))

Start ==
    /\ pc = "idle"
    /\ tctx' = "ctx"
    /\ cycle' = 1
    /\ tablesLeft' = WatchedTables
    /\ pc' = NextAfterTables(WatchedTables)
    /\ UNCHANGED <<fixedVars, accVars, envVars, result, err, tableName, rows, rowIdx, watchIdx,
                   invocations, supVars>>

\* GetRows with a failing table skipped instead of returned
GetRowsSkip(tn, ok) ==
    /\ pc = "fetch"
    /\ tn \in tablesLeft
    /\ IF ~ok
       THEN /\ err' = FetchError
            /\ tablesLeft' = tablesLeft \ {tn}
            /\ pc' = NextAfterTables(tablesLeft \ {tn})
            /\ UNCHANGED <<result, tableName, rows, rowIdx, watchIdx>>
       ELSE /\ err' = ""
            /\ tableName' = tn
            /\ tablesLeft' = tablesLeft \ {tn}
            /\ rows' = ListRecords(tn)
            /\ rowIdx' = 1
            /\ watchIdx' = 1
            /\ pc' = "eval"
            /\ UNCHANGED result
    /\ UNCHANGED <<fixedVars, accVars, envVars, tctx, cycle, invocations, supVars>>

\* rows, err := t.GetRows(tableName) for the next table of the map range
GetRows(tn, ok) ==
    /\ pc = "fetch"
    /\ tn \in tablesLeft
    /\ IF ~ok
       THEN /\ err' = FetchError
            /\ pc' = "returned"
            /\ result' = FetchError
            /\ UNCHANGED <<tablesLeft, tableName, rows, rowIdx, watchIdx>>
       ELSE /\ err' = ""
            /\ tableName' = tn
            /\ tablesLeft' = tablesLeft \ {tn}
            /\ rows' = ListRecords(tn)
            /\ rowIdx' = 1
            /\ watchIdx' = 1
            /\ pc' = "eval"
            /\ UNCHANGED result
    /\ UNCHANGED <<fixedVars, accVars, envVars, tctx, cycle, invocations, supVars>>

\* Matches with any non-empty field value taken for the trigger value
MatchesNonEmpty(r, w) == GetFieldString(r, w.fieldName) # ""

\* row.GetFieldString(watcher.fieldName) == watcher.triggerValue
Matches(r, w) == GetFieldString(r, w.fieldName) = w.triggerValue

\* go t.watchForCancel(actionFunctionCtx, &row, &watcher, actionFunctionCancel)
\* for invocation i: the goroutine holds pointers to the range variables row
\* and watcher, each one variable for all the iterations of its loop
NewSup(i) ==
    [inv |-> i, pc |-> "fetch", row |-> rows[rowIdx].ID, w |-> watchIdx,
     rowLinked |-> TRUE, wLinked |-> TRUE]

\* NewInvocation with the context derived from context.Background()
NewInvocationBackground ==
    [cycle |-> cycle, table |-> tableName, row |-> rows[rowIdx], w |-> watchIdx,
     parent |-> "background", cancel |-> "none", returned |-> FALSE]

\* actionFunctionCtx, actionFunctionCancel := context.WithCancel(t.ctx), and
\* the arguments of the action function
NewInvocation ==
    [cycle |-> cycle, table |-> tableName, row |-> rows[rowIdx], w |-> watchIdx,
     parent |-> tctx, cancel |-> "none", returned |-> FALSE]

\* CallAction with the action function run in its own goroutine
CallActionAsync(S) == Advance(S)

\* watcher.actionFunction(actionFunctionCtx, t, tableName, &row): Start waits
\* for the action function to return
CallAction(S) ==
    /\ pc' = "callback"
    /\ sups' = S
    /\ UNCHANGED <<rowIdx, watchIdx>>

\* Evaluate with the cancel values compared first: a row whose field holds
\* a cancel value of the watch is not dispatched
EvaluateCancelFirst ==
    /\ pc = "eval"
    /\ IF watchers[watchIdx].tableName # tableName
       THEN Advance(sups) /\ UNCHANGED invocations
       ELSE IF /\ Matches(rows[rowIdx], watchers[watchIdx])
               /\ GetFieldString(rows[rowIdx], watchers[watchIdx].fieldName)
                     \notin {watchers[watchIdx].cancelValues[k] :
                                 k \in 1..Len(watchers[watchIdx].cancelValues)}
       THEN /\ invocations' = Append(invocations, NewInvocation)
            /\ CallAction(sups \cup {NewSup(Len(invocations) + 1)})
       ELSE Advance(sups) /\ UNCHANGED invocations
    /\ UNCHANGED <<fixedVars, accVars, envVars, passVars, supErr>>

\* Evaluate with the row read again from the store before the comparison
\* and before it is passed on
EvaluateRefetch ==
    /\ pc = "eval"
    /\ IF watchers[watchIdx].tableName # tableName
       THEN Advance(sups) /\ UNCHANGED invocations
       ELSE IF Matches(MkRow(rows[rowIdx].ID, store[rows[rowIdx].ID]), watchers[watchIdx])
       THEN /\ invocations' = Append(invocations,
                                     [NewInvocation EXCEPT
                                        !.row = MkRow(rows[rowIdx].ID, store[rows[rowIdx].ID])])
            /\ CallAction(sups \cup {NewSup(Len(invocations) + 1)})
       ELSE Advance(sups) /\ UNCHANGED invocations
    /\ UNCHANGED <<fixedVars, accVars, envVars, passVars, supErr>>

\* Evaluate with a row dispatched only in the first pass that finds it at
\* the trigger value
EvaluateFirstPass ==
    /\ pc = "eval"
    /\ IF watchers[watchIdx].tableName # tableName
       THEN Advance(sups) /\ UNCHANGED invocations
       ELSE IF Matches(rows[rowIdx], watchers[watchIdx]) /\ cycle = 1
       THEN /\ invocations' = Append(invocations, NewInvocation)
            /\ CallAction(sups \cup {NewSup(Len(invocations) + 1)})
       ELSE Advance(sups) /\ UNCHANGED invocations
    /\ UNCHANGED <<fixedVars, accVars, envVars, passVars, supErr>>

\* one iteration of the loop over t.watchers for the current row
Evaluate ==
    /\ pc = "eval"
    /\ IF watchers[watchIdx].tableName # tableName
       THEN Advance(sups) /\ UNCHANGED invocations
       ELSE IF Matches(rows[rowIdx], watchers[watchIdx])
       THEN /\ invocations' = Append(invocations, NewInvocation)
            /\ CallAction(sups \cup {NewSup(Len(invocations) + 1)})
       ELSE Advance(sups) /\ UNCHANGED invocations
    /\ UNCHANGED <<fixedVars, accVars, envVars, passVars, supErr>>

\* calling a context's cancel function; only the first call has an effect
CancelBy(inv, who) == [inv EXCEPT !.cancel = IF @ = "none" THEN who ELSE @]

\* ActionReturn without the call of actionFunctionCancel()
ActionReturnNoCancel(i) ==
    /\ i \in Running
    /\ invocations' = [invocations EXCEPT ![i].returned = TRUE]
    /\ IF pc = "callback" /\ i = Len(invocations)
       THEN Advance(sups)
       ELSE UNCHANGED <<loopVars, sups>>
    /\ UNCHANGED <<fixedVars, accVars, envVars, passVars, supErr>>

\* ActionReturn with a break out of the loop over t.watchers after the call
ActionReturnBreak(i) ==
    /\ i \in Running
    /\ invocations' = [invocations EXCEPT ![i] = CancelBy([@ EXCEPT !.returned = TRUE], "return")]
    /\ IF pc = "callback" /\ i = Len(invocations)
       THEN AdvanceBreak(sups)
       ELSE UNCHANGED <<loopVars, sups>>
    /\ UNCHANGED <<fixedVars, accVars, envVars, passVars, supErr>>

\* the action function of invocation i returns; Start, if it waits for it,
\* calls actionFunctionCancel() and goes on with the next watch
ActionReturn(i) ==
    /\ i \in Running
    /\ invocations' = [invocations EXCEPT ![i] = CancelBy([@ EXCEPT !.returned = TRUE], "return")]
    /\ IF pc = "callback" /\ i = Len(invocations)
       THEN Advance(sups)
       ELSE UNCHANGED <<loopVars, sups>>
    /\ UNCHANGED <<fixedVars, accVars, envVars, passVars, supErr>>

\* CheckContext without the select on ctx.Done()
CheckContextNever ==
    /\ pc = "check"
    /\ pc' = "sleep"
    /\ UNCHANGED <<fixedVars, accVars, envVars, tctx, result, err, cycle, tablesLeft, tableName,
                   rows, rowIdx, watchIdx, invocations, supVars>>

\* select { case <-ctx.Done(): return ctx.Err(); default: }
CheckContext ==
    /\ pc = "check"
    /\ IF ctxErr # ""
       THEN pc' = "returned" /\ result' = ctxErr
       ELSE pc' = "sleep" /\ UNCHANGED result
    /\ UNCHANGED <<fixedVars, accVars, envVars, tctx, err, cycle, tablesLeft, tableName, rows,
                   rowIdx, watchIdx, invocations, supVars>>

\* Sleep with the wait given up when the context is done: Start returns
\* from its sleep
SleepInterruptible ==
    /\ pc = "sleep"
    /\ IF ctxErr # ""
       THEN /\ pc' = "returned"
            /\ result' = ctxErr
            /\ UNCHANGED <<cycle, tablesLeft, tableName, rows, invocations, supErr>>
       ELSE /\ cycle < MaxCycles
            /\ sups = {}
            /\ cycle' = cycle + 1
            /\ tablesLeft' = WatchedTables
            /\ pc' = NextAfterTables(WatchedTables)
            /\ tableName' = ""
            /\ rows' = <<>>
            /\ invocations' = <<>>
            /\ supErr' = ""
            /\ UNCHANGED result
    /\ UNCHANGED <<fixedVars, accVars, envVars, tctx, err, rowIdx, watchIdx, sups>>

\* time.Sleep(t.PollInterval) ends and the next pass begins. It outlasts the
\* time.Sleep(t.PollInterval / 2) of the goroutines left by the pass, which
\* return when they wake: every context of the pass is done by then.
Sleep ==
    /\ pc = "sleep"
    /\ cycle < MaxCycles
    /\ sups = {}
    /\ cycle' = cycle + 1
    /\ tablesLeft' = WatchedTables
    /\ pc' = NextAfterTables(WatchedTables)
    /\ tableName' = ""
    /\ rows' = <<>>
    /\ invocations' = <<>>
    /\ supErr' = ""
    /\ UNCHANGED <<fixedVars, accVars, envVars, tctx, result, err, rowIdx, watchIdx, sups>>

(* ------------------------------------------------------------------ *)
(* Watcher.watchForCancel.                                             *)
(* ------------------------------------------------------------------ *)
\* *row and *watcher as the goroutine reads them through its pointers
SupRow(s) == IF s.rowLinked THEN rows[rowIdx].ID ELSE s.row

SupWatch(s) == IF s.wLinked THEN watchIdx ELSE s.w

\* the goroutine reads them while Start assigns them, with nothing ordering
\* the two: a read returns any value the variable has held since the
\* goroutine was started
RowPos(tn, id) == CHOOSE k \in 1..Len(TableRows[tn]) : TableRows[tn][k] = id

SupRows(s) ==
    LET tn == invocations[s.inv].table
    IN {TableRows[tn][k] : k \in RowPos(tn, invocations[s.inv].row.ID)..RowPos(tn, SupRow(s))}

SupWatches(s) == invocations[s.inv].w..SupWatch(s)

\* IsCancelValue with only the first cancel value compared
IsFirstCancelValue(value, w) == Len(w.cancelValues) > 0 /\ value = w.cancelValues[1]

\* value == cancelValue for some cancelValue of the watch
IsCancelValue(value, w) == value \in SeqToSet(w.cancelValues)

\* SupOutcome with the field compared with the trigger value: a cancellation
\* whenever the row has left it
SupOutcomeOffTrigger(id, wi) ==
    IF ~HasRecord(watchers[wi].tableName, id) THEN "error"
    ELSE IF GetFieldString(MkRow(id, store[id]), watchers[wi].fieldName)
               # watchers[wi].triggerValue
    THEN "cancel"
    ELSE "sleep"

\* what a check comes to when GetRow is called for row id under watch wi
\* and returns: an error for a row that is not in the watch's table, a
\* cancellation when the field holds a cancel value, another sleep otherwise
SupOutcome(id, wi) ==
    IF ~HasRecord(watchers[wi].tableName, id) THEN "error"
    ELSE IF IsCancelValue(GetFieldString(MkRow(id, store[id]), watchers[wi].fieldName),
                          watchers[wi])
    THEN "cancel"
    ELSE "sleep"

\* the outcomes of the check of goroutine s, whose GetRow call fails (~ok)
\* or returns
SupOutcomes(s, ok) ==
    IF ok
    THEN {SupOutcome(id, wi) : id \in SupRows(s), wi \in SupWatches(s)}
    ELSE {"error"}

\* SupCheck with the context cancelled when GetRow fails
SupCheckCancelOnError(s, ok) ==
    /\ s \in sups
    /\ s.pc = "fetch"
    /\ \E out \in SupOutcomes(s, ok) :
          IF out = "error"
          THEN /\ supErr' = FetchError
               /\ invocations' = [invocations EXCEPT ![s.inv] = CancelBy(@, "supervisor")]
               /\ sups' = sups \ {s}
          ELSE IF out = "cancel"
          THEN /\ supErr' = ""
               /\ invocations' = [invocations EXCEPT ![s.inv] = CancelBy(@, "supervisor")]
               /\ sups' = sups \ {s}
          ELSE /\ supErr' = ""
               /\ sups' = (sups \ {s}) \cup {[s EXCEPT !.pc = "sleep"]}
               /\ UNCHANGED invocations
    /\ UNCHANGED <<fixedVars, accVars, envVars, passVars, loopVars>>

\* SupCheck with the cancel function of the latest invocation called
SupCheckCancelLatest(s, ok) ==
    /\ s \in sups
    /\ s.pc = "fetch"
    /\ \E out \in SupOutcomes(s, ok) :
          IF out = "error"
          THEN /\ supErr' = FetchError
               /\ sups' = sups \ {s}
               /\ UNCHANGED invocations
          ELSE IF out = "cancel"
          THEN /\ supErr' = ""
               /\ invocations' = [invocations EXCEPT ![Len(invocations)] = CancelBy(@, "supervisor")]
               /\ sups' = sups \ {s}
          ELSE /\ supErr' = ""
               /\ sups' = (sups \ {s}) \cup {[s EXCEPT !.pc = "sleep"]}
               /\ UNCHANGED invocations
    /\ UNCHANGED <<fixedVars, accVars, envVars, passVars, loopVars>>

\* GetRow, the comparison with the cancel values, and what follows
SupCheck(s, ok) ==
    /\ s \in sups
    /\ s.pc = "fetch"
    /\ \E out \in SupOutcomes(s, ok) :
          IF out = "error"
          THEN /\ supErr' = FetchError
               /\ sups' = sups \ {s}
               /\ UNCHANGED invocations
          ELSE IF out = "cancel"
          THEN /\ supErr' = ""
               /\ invocations' = [invocations EXCEPT ![s.inv] = CancelBy(@, "supervisor")]
               /\ sups' = sups \ {s}
          ELSE /\ supErr' = ""
               /\ sups' = (sups \ {s}) \cup {[s EXCEPT !.pc = "sleep"]}
               /\ UNCHANGED invocations
    /\ UNCHANGED <<fixedVars, accVars, envVars, passVars, loopVars>>

\* SupWake without the select on ctx.Done(): the goroutine goes on to its
\* next GetRow
SupWakeNoSelect(s) ==
    /\ s \in sups
    /\ s.pc = "sleep"
    /\ sups' = (sups \ {s}) \cup {[s EXCEPT !.pc = "fetch"]}
    /\ UNCHANGED <<fixedVars, accVars, envVars, passVars, loopVars, invocations, supErr>>

\* time.Sleep(t.PollInterval / 2) ends; select on ctx.Done()
SupWake(s) ==
    /\ s \in sups
    /\ s.pc = "sleep"
    /\ IF CtxDone(s.inv)
       THEN sups' = sups \ {s}
       ELSE sups' = (sups \ {s}) \cup {[s EXCEPT !.pc = "fetch"]}
    /\ UNCHANGED <<fixedVars, accVars, envVars, passVars, loopVars, invocations, supErr>>

Next ==
    \/ \E w \in WatchChoices :
          RegisterFunction(w.tableName, w.fieldName, w.triggerValue, w.cancelValues)
    \/ \E id \in RowIDs, v \in WriteValues : SetRow(id, v)
    \/ \E reason \in CancelReasons : CancelCtx(reason)
    \/ Start
    \/ \E tn \in Tables, ok \in BOOLEAN : GetRows(tn, ok)
    \/ Evaluate
    \/ \E i \in 1..Len(invocations) : ActionReturn(i)
    \/ CheckContext
    \/ Sleep
    \/ \E s \in sups, ok \in BOOLEAN : SupCheck(s, ok)
    \/ \E s \in sups : SupWake(s)

Spec == Init /\ [][Next]_vars

(* ------------------------------------------------------------------ *)
(* Scheduling: Start and the goroutines keep taking their steps, the   *)
(* remote calls return, and an action function returns once its        *)
(* context is done.                                                    *)
(* ------------------------------------------------------------------ *)
SchedulerStep ==
    \/ \E tn \in Tables, ok \in BOOLEAN : GetRows(tn, ok)
    \/ Evaluate
    \/ CheckContext
    \/ Sleep

SupStep ==
    \/ \E s \in sups, ok \in BOOLEAN : SupCheck(s, ok)
    \/ \E s \in sups : SupWake(s)

CancelledActionReturn == \E i \in 1..Len(invocations) : CtxDone(i) /\ ActionReturn(i)

FairSpec ==
    /\ Init /\ [][Next]_vars
    /\ WF_vars(SchedulerStep)
    /\ WF_vars(SupStep)
    /\ WF_vars(CancelledActionReturn)

\* every action function returns, as one that ends its work does
AnyActionReturn == \E i \in 1..Len(invocations) : ActionReturn(i)

\* Start run with a context that is never cancelled on a base whose list
\* fetches succeed
ReturningNext ==
    \/ \E w \in WatchChoices :
          RegisterFunction(w.tableName, w.fieldName, w.triggerValue, w.cancelValues)
    \/ \E id \in RowIDs, v \in WriteValues : SetRow(id, v)
    \/ Start
    \/ \E tn \in Tables : GetRows(tn, TRUE)
    \/ Evaluate
    \/ \E i \in 1..Len(invocations) : ActionReturn(i)
    \/ CheckContext
    \/ Sleep
    \/ \E s \in sups, ok \in BOOLEAN : SupCheck(s, ok)
    \/ \E s \in sups : SupWake(s)

ReturningSchedulerStep ==
    \/ \E tn \in Tables : GetRows(tn, TRUE)
    \/ Evaluate
    \/ CheckContext
    \/ Sleep

ReturningSpec ==
    /\ Init /\ [][ReturningNext]_vars
    /\ WF_vars(ReturningSchedulerStep)
    /\ WF_vars(SupStep)
    /\ WF_vars(AnyActionReturn)

\* a goroutine whose context is done keeps running: its GetRow call returns
\* and its sleep ends
CancelledSupStep ==
    \E s \in sups :
        /\ CtxDone(s.inv)
        /\ \/ \E ok \in BOOLEAN : SupCheck(s, ok)
           \/ SupWake(s)

\* Start run with a context that its caller may cancel: a goroutine sees of
\* the context only that it is done, whatever the reason
SupervisorNext ==
    \/ \E w \in WatchChoices :
          RegisterFunction(w.tableName, w.fieldName, w.triggerValue, w.cancelValues)
    \/ \E id \in RowIDs, v \in WriteValues : SetRow(id, v)
    \/ CancelCtx("context canceled")
    \/ Start
    \/ \E tn \in Tables, ok \in BOOLEAN : GetRows(tn, ok)
    \/ Evaluate
    \/ \E i \in 1..Len(invocations) : ActionReturn(i)
    \/ CheckContext
    \/ Sleep
    \/ \E s \in sups, ok \in BOOLEAN : SupCheck(s, ok)
    \/ \E s \in sups : SupWake(s)

SupervisorSpec ==
    /\ Init /\ [][SupervisorNext]_vars
    /\ WF_vars(CancelledSupStep)

(* ------------------------------------------------------------------ *)
(* Watcher.GetConfig and the Row accessors, called on a config table.  *)
(* ------------------------------------------------------------------ *)
\* GetConfigFrom without the return inside the loop: the last row whose key
\* matches decides
RECURSIVE GetConfigFromLast(_, _, _)
GetConfigFromLast(rs, k, key) ==
    IF k > Len(rs)
    THEN [value |-> "", err |-> NotFound]
    ELSE LET rest == GetConfigFromLast(rs, k + 1, key)
         IN IF rest.err = ""
            THEN rest
            ELSE IF GetFieldString(rs[k], "Key") = key
            THEN [value |-> GetFieldString(rs[k], "Value"), err |-> ""]
            ELSE rest

\* the loop of GetConfig over rows, from row k on
RECURSIVE GetConfigFrom(_, _, _)
GetConfigFrom(rs, k, key) ==
    IF k > Len(rs)
    THEN [value |-> "", err |-> NotFound]
    ELSE IF GetFieldString(rs[k], "Key") = key
    THEN [value |-> GetFieldString(rs[k], "Value"), err |-> ""]
    ELSE GetConfigFrom(rs, k + 1, key)

\* t.GetConfig(key): the list fetch of the config table, then the loop
GetConfig(key, ok) ==
    /\ ret' = IF ~ok
              THEN [op |-> "GetConfig", row |-> 0, key |-> key, value |-> "", err |-> FetchError]
              ELSE LET r == GetConfigFrom(cfgRows, 1, key)
                   IN [op |-> "GetConfig", row |-> 0, key |-> key, value |-> r.value, err |-> r.err]
    /\ UNCHANGED <<schedVars, cfgRows>>

\* row.GetFieldString(fieldName) on row k of the config table
CallGetFieldString(k, fieldName) ==
    /\ k \in 1..Len(cfgRows)
    /\ ret' = [op |-> "GetFieldString", row |-> k, key |-> fieldName,
               value |-> GetFieldString(cfgRows[k], fieldName), err |-> ""]
    /\ UNCHANGED <<schedVars, cfgRows>>

AccessorInit ==
    /\ SchedInit
    /\ cfgRows \in ConfigTables
    /\ ret = NoCall

AccessorNext ==
    \/ \E key \in KeyArgs, ok \in BOOLEAN : GetConfig(key, ok)
    \/ \E k \in 1..MaxConfigRows, fieldName \in FieldArgs : CallGetFieldString(k, fieldName)

AccessorSpec == AccessorInit /\ [][AccessorNext]_vars

(* ------------------------------------------------------------------ *)
(* Properties.                                                         *)
(* ------------------------------------------------------------------ *)
\* the (row, watch) pairs of the current table that Start has gone past
Processed(ri, wi) ==
    CASE pc = "eval" -> ri < rowIdx \/ (ri = rowIdx /\ wi < watchIdx)
      [] pc = "callback" -> ri < rowIdx \/ (ri = rowIdx /\ wi <= watchIdx)
      [] OTHER -> TRUE

\* the dispatches of this pass for row ri of the fetched list under watch wi
Dispatches(ri, wi) ==
    {i \in 1..Len(invocations) :
        /\ invocations[i].cycle = cycle
        /\ invocations[i].table = tableName
        /\ invocations[i].row = rows[ri]
        /\ invocations[i].w = wi}

\* the string-coerced watched field of record id as the store holds it now
StoredValue(id, w) == GetFieldString(MkRow(id, store[id]), w.fieldName)

\* this step is a check by goroutine s: its GetRow call returned
SupChecked(s) ==
    /\ s \in sups
    /\ s.pc = "fetch"
    /\ s \notin sups'
    /\ UNCHANGED loopVars
    /\ Len(invocations') = Len(invocations)

\* C1: in a pass, every row of the fetched list and every watch on its table
\* whose trigger value equals the row's string-coerced field is dispatched
\* exactly once when Start has gone past the pair, and not before.
ExactlyOncePerCycle ==
    \A ri \in 1..Len(rows), wi \in 1..Len(watchers) :
        (/\ watchers[wi].tableName = tableName
         /\ GetFieldString(rows[ri], watchers[wi].fieldName) = watchers[wi].triggerValue)
        => Cardinality(Dispatches(ri, wi)) = (IF Processed(ri, wi) THEN 1 ELSE 0)

\* a pass has dispatched one row under two watches
TwoWatchesDispatched ==
    /\ pc \in {"check", "sleep"}
    /\ \E i, j \in 1..Len(invocations) :
          /\ invocations[i].row = invocations[j].row
          /\ invocations[i].w # invocations[j].w
          /\ invocations[i].returned /\ invocations[j].returned

\* C2: an action function is called for a row only if the row came from the
\* list fetch of the watch's table and its string-coerced field, in the
\* fetched list, equals the watch's trigger value.
OnlyMatchingDispatched ==
    \A i \in 1..Len(invocations) :
        LET inv == invocations[i]
            w == watchers[inv.w]
        IN /\ inv.table = w.tableName
           /\ HasRecord(w.tableName, inv.row.ID)
           /\ GetFieldString(inv.row, w.fieldName) = w.triggerValue
           /\ inv.table = tableName => inv.row \in SeqToSet(rows)

\* two watches on one table and field with different trigger values, and a
\* row that matched only the second: only the second was called for it
OnlySecondWatchCalled ==
    /\ Len(watchers) = 2
    /\ watchers[1].tableName = watchers[2].tableName
    /\ watchers[1].fieldName = watchers[2].fieldName
    /\ watchers[1].triggerValue # watchers[2].triggerValue
    /\ pc \in {"check", "sleep"}
    /\ \E i \in 1..Len(invocations) :
          /\ invocations[i].w = 2
          /\ invocations[i].returned
          /\ \A j \in 1..Len(invocations) :
                invocations[j].row = invocations[i].row => invocations[j].w = 2

\* C3: at most one action function runs at any moment, and while it runs
\* Start stays where it is: no next row or watch, no other pass.
SynchronousDispatch ==
    [][/\ Cardinality(Running') <= 1
       /\ Running' # {} => pc' = "callback" /\ Running' = {Len(invocations')}
       /\ (Running # {} /\ Running' = Running)
             => UNCHANGED <<pc, cycle, tablesLeft, tableName, rows, rowIdx, watchIdx>>]_vars

\* Start waits in an action function while a later watch matches the same row
WaitingWithMatchPending ==
    /\ pc = "callback"
    /\ Running # {}
    /\ \E wi \in (watchIdx + 1)..Len(watchers) :
          /\ watchers[wi].tableName = tableName
          /\ Matches(rows[rowIdx], watchers[wi])

\* C4 as stated: when the row's field is changed to a cancel value of the
\* watch while the action function runs with a live context, a check by its
\* goroutine is still to come.
CancelValueAlwaysCancels ==
    [][\A i \in Running :
          (/\ store'[invocations[i].row.ID] # store[invocations[i].row.ID]
           /\ GetFieldString(MkRow(invocations[i].row.ID, store'[invocations[i].row.ID]),
                             watchers[invocations[i].w].fieldName)
                 \in SeqToSet(watchers[invocations[i].w].cancelValues)
           /\ ~CtxDone(i))
          => \E s \in sups : s.inv = i]_vars

\* C4: when the goroutine of a running action function makes a check whose
\* GetRow succeeds while the row's field holds a cancel value of the watch,
\* that invocation's context is done after the check and no other invocation
\* is touched.
CancelValueCancelsAtCheck ==
    [][\A s \in sups :
          (/\ SupChecked(s)
           /\ supErr' = ""
           /\ s.inv \in Running
           /\ StoredValue(invocations[s.inv].row.ID, watchers[invocations[s.inv].w])
                 \in SeqToSet(watchers[invocations[s.inv].w].cancelValues))
          => /\ invocations'[s.inv].cancel # "none"
             /\ \A j \in 1..Len(invocations) : j # s.inv => invocations'[j] = invocations[j]]_vars

\* a running action function whose row was changed to a cancel value and
\* whose context its goroutine then cancelled
CancelledByTransition ==
    \E i \in Running :
        /\ invocations[i].cancel = "supervisor"
        /\ watchers[invocations[i].w].triggerValue
              \notin SeqToSet(watchers[invocations[i].w].cancelValues)
        /\ StoredValue(invocations[i].row.ID, watchers[invocations[i].w])
              \in SeqToSet(watchers[invocations[i].w].cancelValues)

\* C5: when the goroutine of a running action function makes a check whose
\* GetRow succeeds while the row's field is off the trigger value, the
\* invocation's context is done after the check.
OffTriggerCancels ==
    [][\A s \in sups :
          (/\ SupChecked(s)
           /\ supErr' = ""
           /\ s.inv \in Running
           /\ StoredValue(invocations[s.inv].row.ID, watchers[invocations[s.inv].w])
                 # watchers[invocations[s.inv].w].triggerValue)
          => (invocations'[s.inv].cancel # "none" \/ ctxErr' # "")]_vars

\* C6: whenever the context passed to Start is done, the context of every
\* running action function is done.
ChildOfStartContext ==
    \A i \in Running : ctxErr # "" => CtxDone(i)

\* a running action function whose context is done only through its parent
CancelledThroughParent ==
    \E i \in Running :
        /\ ctxErr # ""
        /\ invocations[i].cancel = "none"
        /\ \A s \in sups : s.inv # i

\* C7: once the context passed to Start is done, Start returns, with the
\* context's error unless a list fetch failed; it returns that error only from
\* the check made after all tables of a pass, without sleeping.
StartReturnsAfterCancel ==
    /\ (ctxErr # "" /\ pc # "idle" /\ ~(pc = "sleep" /\ cycle >= MaxCycles))
          ~> (pc = "returned" /\ result \in {ctxErr, FetchError})
    /\ [][(pc' = "returned" /\ pc # "returned" /\ err' = "")
             => (pc = "check" /\ tablesLeft = {} /\ ctxErr # "" /\ result' = ctxErr)]_vars

\* Start has returned the error of its context
ReturnedCancellation ==
    /\ pc = "returned"
    /\ ctxErr # ""
    /\ result = ctxErr

\* C8: a failed list fetch makes Start return that error at once: the table
\* stays unfetched with the remaining ones, and Start never fetches or
\* dispatches again.
FetchFailureReturns ==
    [][/\ (err' = FetchError /\ err # FetchError)
             => /\ pc = "fetch" /\ pc' = "returned"
                /\ result' = FetchError
                /\ tablesLeft' = tablesLeft /\ tablesLeft # {}
                /\ rows' = rows
                /\ invocations' = invocations
       /\ pc = "returned"
             => /\ pc' = "returned"
                /\ UNCHANGED <<result, err, cycle, tablesLeft, tableName, rows, rowIdx, watchIdx>>
                /\ Len(invocations') = Len(invocations)]_vars

\* the first list fetch of a pass over two tables failed
ReturnedFetchErrorEarly ==
    /\ pc = "returned"
    /\ result = FetchError
    /\ Cardinality(tablesLeft) >= 2

\* C9: Start has returned exactly when it has a result, which is the error of
\* a list fetch that failed or the error of its context, which is done; a
\* failed GetRow in a goroutine ends that goroutine only: no context is
\* cancelled and Start stays where it is.
OnlyFetchOrCancelSurfaces ==
    [][/\ (pc' = "returned") <=> (result' # "")
       /\ result' # ""
             => \/ result' = FetchError /\ err' = FetchError
                \/ result' = ctxErr' /\ ctxErr' # "" /\ err' = ""
       /\ \A s \in sups :
             (SupChecked(s) /\ supErr' = FetchError)
             => /\ invocations' = invocations
                /\ sups' = sups \ {s}
                /\ UNCHANGED <<passVars, loopVars>>]_vars

\* an action function runs on with a live context after its goroutine ended
\* on a failed GetRow
RunningAfterFailedRefetch ==
    \E i \in Running :
        /\ supErr = FetchError
        /\ ~CtxDone(i)
        /\ \A s \in sups : s.inv # i

\* C10: every live goroutine belongs to an action function that is still
\* running, so at most one is live.
SupervisorWithinCallback ==
    /\ \A s \in sups : s.inv \in Running
    /\ Cardinality(sups) <= 1

\* C11: every check a goroutine makes fetches the row of the invocation it
\* was started for, from that invocation's table, and compares with the
\* cancel values of that invocation's watch, wherever Start's loops are.
SupervisorKeepsItsRow ==
    [][\A s \in sups :
          SupChecked(s)
          => /\ SupRow(s) = invocations[s.inv].row.ID
             /\ watchers[SupWatch(s)] = watchers[invocations[s.inv].w]]_vars

Pending(id, wi) ==
    /\ pc \in {"eval", "callback"}
    /\ wi \in 1..Len(watchers)
    /\ watchers[wi].tableName = tableName
    /\ \E ri \in 1..Len(rows) :
          /\ rows[ri].ID = id
          /\ Matches(rows[ri], watchers[wi])
          /\ ~Processed(ri, wi)

\* the action function of watch wi has been called for row id in this pass
Invoked(id, wi) ==
    \E i \in 1..Len(invocations) :
        /\ invocations[i].cycle = cycle
        /\ invocations[i].table = tableName
        /\ invocations[i].row.ID = id
        /\ invocations[i].w = wi

RegistryIndices == UNION {1..Len(r) : r \in Registries}

\* C13: when the action functions return, the loop over a fetched table
\* ends; a list fetch that finds a row at a watch's trigger value leaves the
\* pair to be evaluated in this pass, and it stays so until the watch's
\* action function is called for the row.
TriggeredInObservingCycle ==
    /\ (pc \in {"eval", "callback"}) ~> (pc \notin {"eval", "callback"})
    /\ [][\A id \in RowIDs, wi \in RegistryIndices :
             /\ (/\ pc = "fetch" /\ pc' = "eval"
                 /\ wi \in 1..Len(watchers)
                 /\ watchers[wi].tableName = tableName'
                 /\ HasRecord(tableName', id)
                 /\ StoredValue(id, watchers[wi]) = watchers[wi].triggerValue)
                   => Pending(id, wi)'
             /\ (Pending(id, wi) /\ ~Pending(id, wi)') => Invoked(id, wi)']_vars

\* a row written to the trigger value while Start runs is in the watch's
\* action function
InvokedAfterWrite ==
    /\ pc = "callback"
    /\ \E i \in Running :
          /\ invocations[i].row.ID = "rec2"
          /\ watchers[invocations[i].w].triggerValue = "ToDo"
          /\ InitStore["rec2"] # Str("ToDo")

\* C14: of two dispatches of a pass for rows of one table, the earlier one is
\* for the row listed first or, for one row, for the watch registered first.
DispatchOrder ==
    \A i, j \in 1..Len(invocations) :
        (i < j /\ invocations[i].table = invocations[j].table)
        => LET tn == invocations[i].table
               ri == RowPos(tn, invocations[i].row.ID)
               rj == RowPos(tn, invocations[j].row.ID)
           IN \/ ri < rj
              \/ ri = rj /\ invocations[i].w < invocations[j].w

\* a row dispatched under two watches, and after them a later row of the list
TwoWatchesThenNextRow ==
    \E i, j, k \in 1..Len(invocations) :
        /\ i < j /\ j < k
        /\ invocations[i].row.ID = invocations[j].row.ID
        /\ invocations[i].w < invocations[j].w
        /\ invocations[k].table = invocations[i].table
        /\ invocations[k].row.ID # invocations[i].row.ID

\* C15: what the registry keeps as a watch's trigger is a list of values,
\* and in a pass a watch is dispatched for a row of its table exactly when
\* the row's string-coerced field is one of them.
DispatchOnAnyTriggerValue ==
    \A wi \in 1..Len(watchers) :
        /\ watchers[wi].triggerValue \in Seq({w.triggerValue : w \in WatchChoices})
        /\ \A ri \in 1..Len(rows) :
              (watchers[wi].tableName = tableName /\ Processed(ri, wi))
              => ((Dispatches(ri, wi) # {})
                     <=> (GetFieldString(rows[ri], watchers[wi].fieldName)
                             \in SeqToSet(watchers[wi].triggerValue)))

\* the rows of the config table whose string-coerced Key field is key, as
\* GetConfig compares it
KeyRows(key) == {k \in 1..Len(cfgRows) : GetFieldString(cfgRows[k], "Key") = key}

FirstOf(S) == CHOOSE k \in S : \A m \in S : k <= m

RowsWithKey(key) == {k \in 1..Len(cfgRows) : GetField(cfgRows[k], "Key") = Str(key)}

\* C17: a GetConfig call whose list fetch succeeded, for a key that no row
\* of the config table has as the value of its Key field, returned the error
\* "config key not found" and the empty string.
GetConfigNotFound ==
    (ret.op = "GetConfig" /\ ret.err # FetchError /\ RowsWithKey(ret.key) = {})
    => (ret.err = NotFound /\ ret.value = "")

\* C18: a GetFieldString call returned the empty string for a field the row
\* does not have or a row whose Fields is no key/value mapping, "true" or
\* "false" for a boolean, the string itself for a string, and the empty
\* string for a value that is none of string, boolean and number.
GetFieldStringTotal ==
    ret.op = "GetFieldString"
    => LET fields == cfgRows[ret.row].Fields
           present == fields.isMap /\ ret.key \in DOMAIN fields.kv
       IN /\ ret.err = ""
          /\ ~present => ret.value = ""
          /\ present
                => LET v == fields.kv[ret.key]
                   IN /\ v.t = "string" => ret.value = v.s
                      /\ v.t = "bool" => ret.value = (IF v.b THEN "true" ELSE "false")
                      /\ v.t \notin {"string", "bool", "float64"} => ret.value = ""

\* GetFieldString was called for a field holding an array, on a row that
\* also has a boolean field
ArrayFieldAsString ==
    /\ ret.op = "GetFieldString"
    /\ cfgRows[ret.row].Fields.isMap
    /\ DOMAIN cfgRows[ret.row].Fields.kv = {"Key", "Value"}
    /\ cfgRows[ret.row].Fields.kv["Key"] = Bool(TRUE)
    /\ ret.key = "Value"
    /\ cfgRows[ret.row].Fields.kv["Value"] = Array
    /\ ret.value = ""

\* C19: in every pass the rows of a table are those the store lists when
\* the table is fetched, and evaluating a watch for a row calls its action
\* function exactly when the watch is on the table and the fetched row's
\* field equals its trigger value, whatever earlier passes dispatched.
LevelTriggered ==
    [][/\ (pc = "fetch" /\ pc' = "eval") => rows' = ListRecords(tableName')
       /\ (pc = "eval" /\ loopVars' # loopVars)
             => ((/\ Len(invocations') = Len(invocations) + 1
                  /\ invocations'[Len(invocations')].cycle = cycle
                  /\ invocations'[Len(invocations')].row = rows[rowIdx]
                  /\ invocations'[Len(invocations')].w = watchIdx
                  /\ pc' = "callback")
                 <=> (/\ watchers[watchIdx].tableName = tableName
                      /\ Matches(rows[rowIdx], watchers[watchIdx])))]_vars

\* a row nobody has written to is in the action function again in the
\* second pass
DispatchedAgainNextPass ==
    /\ cycle = 2
    /\ writes = 0
    /\ pc = "callback"
    /\ \E i \in Running :
          /\ invocations[i].cycle = 2
          /\ invocations[i].row.ID = "rec1"
          /\ store["rec1"] = InitStore["rec1"]

\* C20: an invocation whose action function has returned has its cancel
\* function called, so whenever Start is not in an action function the
\* cancel function of every invocation made so far has been called; a
\* further call changes nothing.
ContextCancelledAfterReturn ==
    [][/\ \A i \in 1..Len(invocations') :
             (invocations'[i].returned \/ pc' # "callback") => invocations'[i].cancel # "none"
       /\ \A i \in 1..Len(invocations) :
             (i <= Len(invocations') /\ invocations[i].cancel # "none")
             => invocations'[i].cancel = invocations[i].cancel]_vars

\* Start has gone on after an action function returned whose context its
\* goroutine had cancelled before
ReturnedAfterSupervisorCancel ==
    /\ pc # "callback"
    /\ \E i \in 1..Len(invocations) :
          /\ invocations[i].returned
          /\ invocations[i].cancel = "supervisor"

\* the watch's trigger value is one of its cancel values
TriggerIsCancelValue(w) == IsCancelValue(w.triggerValue, w)

\* C21: a row holding a trigger value that is also a cancel value of the
\* watch is dispatched all the same, with a goroutine that makes its first
\* check without sleeping first; and after a check of that goroutine whose
\* GetRow succeeds while the row still holds the value, the invocation's
\* cancel function has been called.
TriggerPrecedesCancel ==
    [][/\ (/\ pc = "eval"
           /\ loopVars' # loopVars
           /\ watchers[watchIdx].tableName = tableName
           /\ Matches(rows[rowIdx], watchers[watchIdx])
           /\ TriggerIsCancelValue(watchers[watchIdx]))
             => /\ Len(invocations') = Len(invocations) + 1
                /\ invocations'[Len(invocations')].row = rows[rowIdx]
                /\ invocations'[Len(invocations')].w = watchIdx
                /\ invocations'[Len(invocations')].cancel = "none"
                /\ pc' = "callback"
                /\ \E s \in sups' \ sups : s.inv = Len(invocations') /\ s.pc = "fetch"
       /\ \A s \in sups :
             (/\ SupChecked(s)
              /\ supErr' = ""
              /\ TriggerIsCancelValue(watchers[invocations[s.inv].w])
              /\ StoredValue(invocations[s.inv].row.ID, watchers[invocations[s.inv].w])
                    = watchers[invocations[s.inv].w].triggerValue)
             => invocations'[s.inv].cancel # "none"]_vars

\* an action function runs for a row nobody wrote to, under a watch whose
\* trigger value is a cancel value, and its goroutine has cancelled its
\* context
CancelledAtFirstCheck ==
    /\ writes = 0
    /\ \E i \in Running :
          /\ TriggerIsCancelValue(watchers[invocations[i].w])
          /\ StoredValue(invocations[i].row.ID, watchers[invocations[i].w])
                = watchers[invocations[i].w].triggerValue
          /\ invocations[i].cancel = "supervisor"
          /\ \A s \in sups : s.inv # i

CancelCheckedOncePerPass ==
    [][/\ ctxErr # "" => ctxErr' = ctxErr
       /\ (pc' = "returned" /\ pc # "returned" /\ result' \in CancelReasons)
             => (pc = "check" /\ tablesLeft = {} /\ ctxErr # "" /\ result' = ctxErr)
       /\ (pc = "check" /\ pc' # "check" /\ ctxErr # "")
             => (pc' = "returned" /\ result' = ctxErr)
       /\ (pc = "sleep" /\ pc' # "sleep")
             => (cycle' = cycle + 1 /\ pc' \in {"fetch", "check"} /\ result' = "")
       /\ (ctxErr # "" /\ pc # "sleep") => pc' # "sleep"
       /\ (Len(invocations') = Len(invocations) + 1 /\ ctxErr # "")
             => /\ invocations'[Len(invocations')].parent = "ctx"
                /\ ctxErr' # ""
                /\ Len(invocations') \in Running']_vars

\* the context was cancelled while Start sleeps between two passes, and
\* Start has not returned: the next pass is still to come
CancelledDuringSleep ==
    /\ pc = "sleep"
    /\ ctxErr # ""
    /\ result = ""
    /\ sups = {}
    /\ cycle < MaxCycles

\* C24: from a table's list fetch to the end of its loops the fetched rows
\* stay as they were fetched, whatever is written to the store; evaluating a
\* watch of the table compares the fetched row, not the stored one, and the
\* action function is called exactly when the fetched row matches, with the
\* fetched row as its argument.
DispatchFromSnapshot ==
    [][/\ (pc \in {"eval", "callback"} /\ pc' \in {"eval", "callback"})
             => (rows' = rows /\ tableName' = tableName)
       /\ (/\ pc = "eval"
           /\ loopVars' # loopVars
           /\ watchers[watchIdx].tableName = tableName)
             => IF GetFieldString(rows[rowIdx], watchers[watchIdx].fieldName)
                      = watchers[watchIdx].triggerValue
                THEN /\ Len(invocations') = Len(invocations) + 1
                     /\ invocations'[Len(invocations')].row = rows[rowIdx]
                     /\ invocations'[Len(invocations')].w = watchIdx
                ELSE invocations' = invocations]_vars

\* a row is in the action function of a second watch, with the fetched
\* field at the trigger value, after the store's field was changed during
\* the action function of the first
SecondWatchAfterStoreChange ==
    /\ pc = "callback"
    /\ \E i, j \in 1..Len(invocations) :
          /\ invocations[i].row = invocations[j].row
          /\ invocations[i].w < invocations[j].w
          /\ invocations[i].returned
          /\ invocations[i].cancel = "supervisor"
          /\ j \in Running
          /\ GetFieldString(invocations[j].row, watchers[invocations[j].w].fieldName)
                = watchers[invocations[j].w].triggerValue
          /\ StoredValue(invocations[j].row.ID, watchers[invocations[j].w])
                # watchers[invocations[j].w].triggerValue

\* this step is taken by goroutine s: its GetRow returned or its sleep ended
SupStepped(s) ==
    /\ s \in sups
    /\ \A t \in sups' : t.inv = s.inv => t.pc # s.pc

\* C25: every goroutine whose invocation's context is done ends: the
\* context stays done while the goroutine lives, a check ends the goroutine
\* or sends it to sleep, the wake from a sleep with the context done ends it,
\* so it ends at the latest at the select that follows the sleep it is in or
\* about to begin; and when the goroutines with a done context keep
\* running, a moment comes when none of them is left, which each of them,
\* its context staying done, has not outlived.
NoSupervisorLeak ==
    /\ [][\A s \in sups :
             /\ Cardinality({t \in sups : t.inv = s.inv}) = 1
             /\ (CtxDone(s.inv) /\ (\E t \in sups' : t.inv = s.inv))
                   => (s.inv <= Len(invocations') /\ CtxDone(s.inv)')
             /\ (SupStepped(s) /\ s.pc = "fetch")
                   => \A t \in sups' : t.inv = s.inv => t.pc = "sleep"
             /\ (SupStepped(s) /\ s.pc = "sleep" /\ CtxDone(s.inv))
                   => \A t \in sups' : t.inv # s.inv]_vars
    /\ (\E s \in sups : CtxDone(s.inv)) ~> (\A s \in sups : ~CtxDone(s.inv))

\* the one goroutine of a pass has ended at the select after a sleep: no
\* GetRow of the pass failed, the store holds no cancel value of a watch,
\* and the context was cancelled by Start after the action function returned
EndedAfterSleep ==
    /\ sups = {}
    /\ supErr = ""
    /\ writes = 0
    /\ pc \in {"check", "sleep"}
    /\ Len(invocations) = 1
    /\ invocations[1].cancel = "return"
    /\ \A id \in RowIDs, wi \in 1..Len(watchers) : SupOutcome(id, wi) # "cancel"

====
